---- MODULE Spec2Model ----
(***************************************************************************)
(* Model of go-reorder: the categorize / sort / collect / emit pipeline    *)
(* behind reorder.SourceWithConfig and reorder.FileWithConfig.             *)
(*                                                                         *)
(* Identifiers are sequences of ASCII codes, so that the case test of      *)
(* ast.IsExported, the prefix test of the constructor match and the        *)
(* byte-wise string order used by the sort comparators are computed as     *)
(* the Go code computes them.                                              *)
(*                                                                         *)
(* A declaration is a record.  Every leaf that carries source text (an     *)
(* import, a const/var spec, a type spec, a function) has a unique id; the *)
(* multiset of ids is the multiset of declarations "counting each          *)
(* const/var spec individually".  Whitespace decorations (Decs.Before,     *)
(* Decs.After) are not modelled; the header comment of a block             *)
(* (Decs.Start) is.                                                        *)
(***************************************************************************)
EXTENDS Integers, Sequences, FiniteSets, Bags

(* ------------------------------ bounds --------------------------------- *)

\* number of goroutines that call FileWithConfig at the same time
MaxGoroutines == 2

\* largest number of top-level declarations in an input file
MaxDecls == 3

\* number of reorder calls chained on one file (2 = reorder the output again)
MaxRuns == 2

\* longest Sections.Order of a configuration file handed to LoadConfig
MaxOrderLen == 2

(* ---------------------------- identifiers ------------------------------ *)

NoName == <<>>
N_main == <<109, 97, 105, 110>>
N_init == <<105, 110, 105, 116>>
N_T == <<84>>
N_U == <<85>>
N_NewT == <<78, 101, 119, 84>>
N_Helper == <<72>>
N_helper == <<104>>
N_String == <<83>>
N_A == <<65>>
N_B == <<66>>
N_C == <<67>>
N_V == <<86>>
N_v == <<118>>
N_Red == <<82>>
N_Green == <<71>>
N_X == <<88>>
N_D == <<68>>
N_E == <<69>>
N_MustT == <<77, 117, 115, 116, 84>>
N_u == <<117>>
N_t == <<116>>
N_get == <<103>>
N_blank == <<95>>
P_New == <<78, 101, 119>>
P_Must == <<77, 117, 115, 116>>

\* Go's < on strings: byte-wise lexicographic order
RECURSIVE StrLess(_, _)
StrLess(a, b) ==
    IF a = <<>> THEN b # <<>>
    ELSE IF b = <<>> THEN FALSE
    ELSE IF a[1] # b[1] THEN a[1] < b[1]
    ELSE StrLess(Tail(a), Tail(b))

HasPrefix(s, p) == Len(s) >= Len(p) /\ SubSeq(s, 1, Len(p)) = p

IsExported(name) == IF name = <<>> THEN FALSE ELSE name[1] \in 65..90

(* ------------------------- type expressions ---------------------------- *)

Ident(n) == [form |-> "ident", name |-> n]
Star(e) == [form |-> "star", x |-> e]
Index(e) == [form |-> "index", x |-> e]
Selector(n) == [form |-> "selector", name |-> n]
NoExpr == [form |-> "nil"]

RECURSIVE ExtractTypeName(_)
ExtractTypeName(expr) ==
    CASE expr.form = "ident" -> expr.name
      [] expr.form = "selector" -> expr.name
      [] expr.form = "star" -> ExtractTypeName(expr.x)
      [] expr.form = "index" -> ExtractTypeName(expr.x)
      [] OTHER -> NoName

\* a receiver name extraction that knows identifiers and pointers to
\* identifiers only
ExtractReceiverTypeName_NoGenerics(recv) ==
    IF recv = NoExpr THEN NoName
    ELSE IF recv.form = "ident" THEN recv.name
    ELSE IF recv.form = "star" /\ recv.x.form = "ident" THEN recv.x.name
    ELSE NoName

ExtractReceiverTypeName(recv) ==
    IF recv = NoExpr THEN NoName ELSE ExtractTypeName(recv)

getFirstReturnTypeName(fn) ==
    IF fn.results = <<>> THEN NoName
    ELSE LET firstResult == fn.results[1] IN
         IF firstResult.form = "star"
         THEN IF firstResult.x.form = "ident" THEN firstResult.x.name ELSE NoName
         ELSE IF firstResult.form = "ident" THEN firstResult.name ELSE NoName

(* --------------------------- declarations ------------------------------ *)

Nil == [kind |-> "nil"]

\* header comment (Decs.Start) of a GenDecl: its text and, for the header of
\* an enum's value block, the type name it mentions
StartComment(text, n) == [text |-> text, of |-> n]
NoStart == StartComment("", NoName)
UserDoc == StartComment("// user doc", NoName)

ImportDecl(i) == [kind |-> "import", id |-> i]
FuncDecl(i, n, r, res) == [kind |-> "func", id |-> i, name |-> n, recv |-> r, results |-> res]
ValueSpec(i, n, t, io) == [id |-> i, name |-> n, typ |-> t, iota |-> io]
TypeSpec(i, n) == [id |-> i, name |-> n]
ConstDecl(specs, st) == [kind |-> "const", specs |-> specs, start |-> st]
VarDecl(specs, st) == [kind |-> "var", specs |-> specs, start |-> st]
TypeDecl(specs) == [kind |-> "type", specs |-> specs]

\* ids of the source-text leaves of one declaration, in order
DeclIds(d) ==
    CASE d.kind \in {"import", "func"} -> <<d.id>>
      [] d.kind \in {"const", "var", "type"} -> [i \in 1..Len(d.specs) |-> d.specs[i].id]
      [] OTHER -> <<>>

RECURSIVE Flatten(_)
Flatten(ss) == IF ss = <<>> THEN <<>> ELSE Head(ss) \o Flatten(Tail(ss))

\* ids of a declaration list, in order
IdsOf(decls) == Flatten([i \in 1..Len(decls) |-> DeclIds(decls[i])])

RECURSIVE SeqToBag(_)
SeqToBag(s) == IF s = <<>> THEN EmptyBag ELSE SetToBag({Head(s)}) (+) SeqToBag(Tail(s))

\* the multiset of declarations of a declaration list
DeclBag(decls) == SeqToBag(IdsOf(decls))

\* two lists hold the same entries, each as often (equal lists do)
SameBag(a, b) == a = b \/ SeqToBag(a) = SeqToBag(b)

(* ------------------------------ sorting -------------------------------- *)

\* the sort key of an entry: the type name of a group, the (first) name of a
\* spec or function
KeyOf(x) == IF "TypeName" \in DOMAIN x THEN x.TypeName ELSE x.name

\* inner loop of sort.Slice's insertion sort (the algorithm Go uses for
\* slices of at most 12 entries): x moves left while less(x, previous)
RECURSIVE InsertLess(_, _)
InsertLess(s, x) ==
    IF s = <<>> THEN <<x>>
    ELSE IF StrLess(KeyOf(x), KeyOf(s[Len(s)]))
         THEN Append(InsertLess(SubSeq(s, 1, Len(s) - 1), x), s[Len(s)])
         ELSE Append(s, x)

RECURSIVE SortSliceFrom(_, _)
SortSliceFrom(done, rest) ==
    IF rest = <<>> THEN done ELSE SortSliceFrom(InsertLess(done, Head(rest)), Tail(rest))

\* insertionSort: the stable sort pdqsort uses for ranges of at most
\* maxInsertion entries
insertionSort(s) == SortSliceFrom(<<>>, s)

maxInsertion == 12

\* less(i, j) and swap(i, j) on the entries of a slice (positions from 1)
Less(data, i, j) == StrLess(KeyOf(data[i]), KeyOf(data[j]))

Swap(data, i, j) == [data EXCEPT ![i] = data[j], ![j] = data[i]]

\* order2 and median: the position, among three, of the median entry
median(data, a, b, c) ==
    LET a1 == IF Less(data, b, a) THEN b ELSE a
        b1 == IF Less(data, b, a) THEN a ELSE b
        b2 == IF Less(data, c, b1) THEN c ELSE b1
    IN IF Less(data, b2, a1) THEN a1 ELSE b2

\* choosePivot for a range of 8 to 49 entries: the median of the entries at
\* one, two and three quarters
choosePivot(data) ==
    LET q == Len(data) \div 4 IN median(data, 1 + q, 1 + 2 * q, 1 + 3 * q)

\* partialInsertionSort on a range of fewer than 50 entries: it succeeds only
\* if no entry is less than the one before it, and shifts nothing
partialInsertionSort(data) == \A i \in 2..Len(data) : ~Less(data, i, i - 1)

\* the two scans of partition: i moves right over entries less than the
\* pivot (kept at position 1), j moves left over entries that are not
RECURSIVE ScanUp(_, _, _)
ScanUp(data, i, j) == IF i <= j /\ Less(data, i, 1) THEN ScanUp(data, i + 1, j) ELSE i

RECURSIVE ScanDown(_, _, _)
ScanDown(data, i, j) == IF i <= j /\ ~Less(data, j, 1) THEN ScanDown(data, i, j - 1) ELSE j

RECURSIVE PartitionLoop(_, _, _)
PartitionLoop(data, i, j) ==
    LET i2 == ScanUp(data, i, j)
        j2 == ScanDown(data, i2, j)
    IN IF i2 > j2 THEN [data |-> data, j |-> j2]
       ELSE PartitionLoop(Swap(data, i2, j2), i2 + 1, j2 - 1)

\* partition: the pivot is swapped to the front, out-of-place pairs are
\* swapped, and the pivot is swapped to its final position mid
partition(data, pivot) ==
    LET r == PartitionLoop(Swap(data, 1, pivot), 2, Len(data))
    IN [data |-> Swap(r.data, r.j, 1), mid |-> r.j]

\* pdqsort, the algorithm behind sort.Slice: insertion sort for at most
\* maxInsertion entries; a longer range is returned as it is when it is
\* already in order, and is otherwise partitioned around a pivot and its two
\* sides sorted.  (Exact for ranges of up to maxInsertion + 1 entries, the
\* longest that are sorted here: both sides of such a range go to the
\* insertion sort.)
RECURSIVE pdqsort(_)
pdqsort(data) ==
    IF Len(data) <= maxInsertion THEN insertionSort(data)
    ELSE IF partialInsertionSort(data) THEN data
    ELSE LET p == partition(data, choosePivot(data)) IN
         pdqsort(SubSeq(p.data, 1, p.mid - 1))
         \o <<p.data[p.mid]>>
         \o pdqsort(SubSeq(p.data, p.mid + 1, Len(p.data)))

\* sort.Slice(s, func(i, j) bool { return s[i].key < s[j].key })
SortSlice(s) == pdqsort(s)

SortEnumGroup(g) ==
    [g EXCEPT !.ExportedMethods = SortSlice(@), !.UnexportedMethods = SortSlice(@)]

\* a group sort that leaves the constructors in the order they were filed in
SortTypeGroup_NoConstructors(g) ==
    [g EXCEPT !.ExportedMethods = SortSlice(@), !.UnexportedMethods = SortSlice(@)]

SortTypeGroup(g) ==
    [g EXCEPT !.Constructors = SortSlice(@),
              !.ExportedMethods = SortSlice(@),
              !.UnexportedMethods = SortSlice(@)]

\* a sort that leaves the groups in the order they were appended in
SortTypeGroups_Unsorted(gs) == [i \in 1..Len(gs) |-> SortTypeGroup(gs[i])]

SortEnumGroups(gs) == LET sorted == SortSlice(gs) IN [i \in 1..Len(sorted) |-> SortEnumGroup(sorted[i])]

SortTypeGroups(gs) == LET sorted == SortSlice(gs) IN [i \in 1..Len(sorted) |-> SortTypeGroup(sorted[i])]

SortCategorized(cat) ==
    [cat EXCEPT !.ExportedConsts = SortSlice(@),
                !.UnexportedConsts = SortSlice(@),
                !.ExportedVars = SortSlice(@),
                !.UnexportedVars = SortSlice(@),
                !.ExportedEnums = SortEnumGroups(@),
                !.UnexportedEnums = SortEnumGroups(@),
                !.ExportedTypes = SortTypeGroups(@),
                !.UnexportedTypes = SortTypeGroups(@),
                !.ExportedFuncs = SortSlice(@),
                !.UnexportedFuncs = SortSlice(@)]

(* --------------------------- categorization ---------------------------- *)

IsIotaBlock(decl) ==
    /\ decl.kind = "const"
    /\ \E i \in 1..Len(decl.specs) : decl.specs[i].iota

ExtractEnumType(decl) ==
    IF Len(decl.specs) = 0 THEN NoName
    ELSE IF decl.specs[1].typ = NoExpr THEN NoName
    ELSE ExtractTypeName(decl.specs[1].typ)

EmptyCat ==
    [Imports |-> <<>>, Main |-> Nil, Init |-> <<>>,
     ExportedConsts |-> <<>>, ExportedEnums |-> <<>>, ExportedVars |-> <<>>,
     ExportedTypes |-> <<>>, ExportedFuncs |-> <<>>,
     UnexportedConsts |-> <<>>, UnexportedEnums |-> <<>>, UnexportedVars |-> <<>>,
     UnexportedTypes |-> <<>>, UnexportedFuncs |-> <<>>,
     Uncategorized |-> <<>>]

NewTypeGroup(n) ==
    [TypeName |-> n, TypeDecl |-> Nil, Constructors |-> <<>>,
     ExportedMethods |-> <<>>, UnexportedMethods |-> <<>>]

NewEnumGroup(n, decl) ==
    [TypeName |-> n, TypeDecl |-> Nil, ConstDecl |-> decl,
     ExportedMethods |-> <<>>, UnexportedMethods |-> <<>>]

\* typeGroups[n] = &TypeGroup{...}: the map as a function on the names it holds
PutGroup(tgs, n, g) == [k \in (DOMAIN tgs) \cup {n} |-> IF k = n THEN g ELSE tgs[k]]

EnsureGroup(tgs, n) == IF n \in DOMAIN tgs THEN tgs ELSE PutGroup(tgs, n, NewTypeGroup(n))

\* names of the types defined by the type declarations of a file
TypeNamesOf(decls) ==
    UNION {{decls[i].specs[j].name : j \in 1..Len(decls[i].specs)} :
              i \in {k \in 1..Len(decls) : decls[k].kind = "type"}}

\* Pass 1: collect all type names
CollectTypeNames(decls) == [n \in TypeNamesOf(decls) |-> NewTypeGroup(n)]

\* Pass 2, const or var specs routed one by one to the exported/unexported bucket
RECURSIVE RouteSpecs(_, _, _, _)
RouteSpecs(cat, specs, expField, unexpField) ==
    IF specs = <<>> THEN cat
    ELSE LET vspec == Head(specs)
             next == IF IsExported(vspec.name)
                     THEN [cat EXCEPT ![expField] = Append(@, vspec)]
                     ELSE [cat EXCEPT ![unexpField] = Append(@, vspec)]
         IN RouteSpecs(next, Tail(specs), expField, unexpField)

\* Pass 2, one type declaration: every spec gets its own GenDecl and, unless
\* its name is already known as an enum, its group joins the type bucket.
\* The buckets hold pointers to groups: here, the group's name.
RECURSIVE CategorizeTypeSpecs(_, _)
CategorizeTypeSpecs(st, specs) ==
    IF specs = <<>> THEN st
    ELSE LET tspec == Head(specs)
             typeName == tspec.name
             tgs1 == EnsureGroup(st.typeGroups, typeName)
             tgs2 == [tgs1 EXCEPT ![typeName].TypeDecl = TypeDecl(<<tspec>>)]
             cat2 == IF typeName \in st.enumTypes THEN st.cat
                     ELSE IF IsExported(typeName)
                          THEN [st.cat EXCEPT !.ExportedTypes = Append(@, typeName)]
                          ELSE [st.cat EXCEPT !.UnexportedTypes = Append(@, typeName)]
         IN CategorizeTypeSpecs([st EXCEPT !.cat = cat2, !.typeGroups = tgs2], Tail(specs))

\* a const categorization that takes every iota block for an enum, named
\* after its first constant when the block carries no type
CategorizeConst_IotaIsEnum(st, genDecl) ==
    LET typeName == IF IsIotaBlock(genDecl)
                    THEN IF ExtractEnumType(genDecl) # NoName THEN ExtractEnumType(genDecl)
                         ELSE genDecl.specs[1].name
                    ELSE NoName IN
    IF typeName # NoName
    THEN [st EXCEPT
            !.cat = IF IsExported(typeName)
                    THEN [@ EXCEPT !.ExportedEnums = Append(@, NewEnumGroup(typeName, genDecl))]
                    ELSE [@ EXCEPT !.UnexportedEnums = Append(@, NewEnumGroup(typeName, genDecl))],
            !.enumTypes = @ \cup {typeName}]
    ELSE [st EXCEPT !.cat = RouteSpecs(@, genDecl.specs, "ExportedConsts", "UnexportedConsts")]

CategorizeConst(st, genDecl) ==
    LET typeName == IF IsIotaBlock(genDecl) THEN ExtractEnumType(genDecl) ELSE NoName IN
    IF typeName # NoName
    THEN [st EXCEPT
            !.cat = IF IsExported(typeName)
                    THEN [@ EXCEPT !.ExportedEnums = Append(@, NewEnumGroup(typeName, genDecl))]
                    ELSE [@ EXCEPT !.UnexportedEnums = Append(@, NewEnumGroup(typeName, genDecl))],
            !.enumTypes = @ \cup {typeName}]
    ELSE [st EXCEPT !.cat = RouteSpecs(@, genDecl.specs, "ExportedConsts", "UnexportedConsts")]

\* a func categorization that keeps one init function, as it keeps one main
CategorizeFunc_SingleInit(st, fn) ==
    IF fn.name = N_main /\ fn.recv = NoExpr
    THEN [st EXCEPT !.cat.Main = fn]
    ELSE IF fn.name = N_init /\ fn.recv = NoExpr
    THEN [st EXCEPT !.cat.Init = <<fn>>]
    ELSE IF fn.recv # NoExpr
    THEN LET typeName == ExtractReceiverTypeName(fn.recv)
             tgs1 == EnsureGroup(st.typeGroups, typeName)
         IN [st EXCEPT !.typeGroups =
                IF IsExported(fn.name)
                THEN [tgs1 EXCEPT ![typeName].ExportedMethods = Append(@, fn)]
                ELSE [tgs1 EXCEPT ![typeName].UnexportedMethods = Append(@, fn)]]
    ELSE LET isConstructorCandidate == HasPrefix(fn.name, P_New) \/ HasPrefix(fn.name, P_Must)
             returnType == getFirstReturnTypeName(fn)
         IN IF isConstructorCandidate /\ returnType # NoName /\ returnType \in DOMAIN st.typeGroups
            THEN [st EXCEPT !.typeGroups[returnType].Constructors = Append(@, fn)]
            ELSE IF IsExported(fn.name)
                 THEN [st EXCEPT !.cat.ExportedFuncs = Append(@, fn)]
                 ELSE [st EXCEPT !.cat.UnexportedFuncs = Append(@, fn)]

CategorizeFunc(st, fn) ==
    IF fn.name = N_main /\ fn.recv = NoExpr
    THEN [st EXCEPT !.cat.Main = fn]
    ELSE IF fn.name = N_init /\ fn.recv = NoExpr
    THEN [st EXCEPT !.cat.Init = Append(@, fn)]
    ELSE IF fn.recv # NoExpr
    THEN LET typeName == ExtractReceiverTypeName(fn.recv)
             tgs1 == EnsureGroup(st.typeGroups, typeName)
         IN [st EXCEPT !.typeGroups =
                IF IsExported(fn.name)
                THEN [tgs1 EXCEPT ![typeName].ExportedMethods = Append(@, fn)]
                ELSE [tgs1 EXCEPT ![typeName].UnexportedMethods = Append(@, fn)]]
    ELSE LET isConstructorCandidate == HasPrefix(fn.name, P_New) \/ HasPrefix(fn.name, P_Must)
             returnType == getFirstReturnTypeName(fn)
         IN IF isConstructorCandidate /\ returnType # NoName /\ returnType \in DOMAIN st.typeGroups
            THEN [st EXCEPT !.typeGroups[returnType].Constructors = Append(@, fn)]
            ELSE IF IsExported(fn.name)
                 THEN [st EXCEPT !.cat.ExportedFuncs = Append(@, fn)]
                 ELSE [st EXCEPT !.cat.UnexportedFuncs = Append(@, fn)]

CategorizeDecl(st, decl) ==
    CASE decl.kind = "import" -> [st EXCEPT !.cat.Imports = Append(@, decl)]
      [] decl.kind = "const" -> CategorizeConst(st, decl)
      [] decl.kind = "var" -> [st EXCEPT !.cat = RouteSpecs(@, decl.specs, "ExportedVars", "UnexportedVars")]
      [] decl.kind = "type" -> CategorizeTypeSpecs(st, decl.specs)
      [] decl.kind = "func" -> CategorizeFunc(st, decl)
      [] OTHER -> st

\* Pass 2: categorize all declarations in file order
RECURSIVE CategorizeAll(_, _)
CategorizeAll(st, decls) ==
    IF decls = <<>> THEN st ELSE CategorizeAll(CategorizeDecl(st, Head(decls)), Tail(decls))

\* remove the first entry of a type bucket that points at the named group
RECURSIVE RemoveFirst(_, _)
RemoveFirst(names, n) ==
    IF names = <<>> THEN <<>>
    ELSE IF Head(names) = n THEN Tail(names)
    ELSE <<Head(names)>> \o RemoveFirst(Tail(names), n)

\* Pass 3 for one enum bucket: link the type declaration and the methods of
\* the same-named TypeGroup, and drop that group from the type bucket
PairEnumGroup(tgs, eg) ==
    IF eg.TypeName \in DOMAIN tgs
    THEN [eg EXCEPT !.TypeDecl = tgs[eg.TypeName].TypeDecl,
                    !.ExportedMethods = tgs[eg.TypeName].ExportedMethods,
                    !.UnexportedMethods = tgs[eg.TypeName].UnexportedMethods]
    ELSE eg

RECURSIVE RemoveEnumTypes(_, _, _)
RemoveEnumTypes(names, enums, tgs) ==
    IF enums = <<>> THEN names
    ELSE RemoveEnumTypes(
            IF Head(enums).TypeName \in DOMAIN tgs
            THEN RemoveFirst(names, Head(enums).TypeName) ELSE names,
            Tail(enums), tgs)

PairEnums(st) ==
    LET tgs == st.typeGroups
        c == st.cat
    IN [st EXCEPT !.cat =
          [c EXCEPT
             !.ExportedEnums = [i \in 1..Len(c.ExportedEnums) |-> PairEnumGroup(tgs, c.ExportedEnums[i])],
             !.ExportedTypes = RemoveEnumTypes(c.ExportedTypes, c.ExportedEnums, tgs),
             !.UnexportedEnums = [i \in 1..Len(c.UnexportedEnums) |-> PairEnumGroup(tgs, c.UnexportedEnums[i])],
             !.UnexportedTypes = RemoveEnumTypes(c.UnexportedTypes, c.UnexportedEnums, tgs)]]

\* Pass 4: "for _, tg := range typeGroups" in the map order mapOrder
RECURSIVE AddMethodOnly(_, _)
AddMethodOnly(st, mapOrder) ==
    IF mapOrder = <<>> THEN st
    ELSE LET tg == st.typeGroups[Head(mapOrder)]
             next == IF tg.TypeDecl = Nil /\ (Len(tg.ExportedMethods) > 0 \/ Len(tg.UnexportedMethods) > 0)
                     THEN IF IsExported(tg.TypeName)
                          THEN [st EXCEPT !.cat.ExportedTypes = Append(@, tg.TypeName)]
                          ELSE [st EXCEPT !.cat.UnexportedTypes = Append(@, tg.TypeName)]
                     ELSE st
         IN AddMethodOnly(next, Tail(mapOrder))

\* the buckets' group pointers, dereferenced
Deref(st) ==
    [st.cat EXCEPT
        !.ExportedTypes = [i \in 1..Len(@) |-> st.typeGroups[@[i]]],
        !.UnexportedTypes = [i \in 1..Len(@) |-> st.typeGroups[@[i]]]]

\* state of the four passes before Pass 4
BeforePass4(decls) ==
    PairEnums(CategorizeAll([cat |-> EmptyCat, typeGroups |-> CollectTypeNames(decls),
                             enumTypes |-> {}], decls))

\* the orders in which a Go map with these keys can be ranged over
RECURSIVE SeqsOver(_)
SeqsOver(S) ==
    IF S = {} THEN {<<>>}
    ELSE UNION {{<<x>> \o s : s \in SeqsOver(S \ {x})} : x \in S}

MapOrders(decls) == SeqsOver(DOMAIN BeforePass4(decls).typeGroups)

\* a categorization without Pass 4
CategorizeDeclarations_NoPass4(decls, mapOrder) ==
    SortCategorized(Deref(BeforePass4(decls)))

CategorizeDeclarations(decls, mapOrder) ==
    SortCategorized(Deref(AddMethodOnly(BeforePass4(decls), mapOrder)))

(* ------------------------- collect uncategorized ------------------------ *)

\* MergeConstSpecs / MergeVarSpecs: one parenthesized block with the header comment
MergeConstSpecs(specs, comment) == ConstDecl(specs, StartComment(comment, NoName))

MergeVarSpecs(specs, comment) == VarDecl(specs, StartComment(comment, NoName))

OptDecl(d) == IF d = Nil THEN <<>> ELSE <<d>>

\* a type group flattened: type declaration, constructors, methods
FlattenTypeGroup(tg) ==
    OptDecl(tg.TypeDecl) \o tg.Constructors \o tg.ExportedMethods \o tg.UnexportedMethods

\* an enum group flattened: type declaration, value block, methods
FlattenEnumGroup(eg) ==
    OptDecl(eg.TypeDecl) \o OptDecl(eg.ConstDecl) \o eg.ExportedMethods \o eg.UnexportedMethods

FlattenTypeGroups(gs) == Flatten([i \in 1..Len(gs) |-> FlattenTypeGroup(gs[i])])

FlattenEnumGroups(gs) == Flatten([i \in 1..Len(gs) |-> FlattenEnumGroup(gs[i])])

CollectSpecs(cat, included, section, field, merged) ==
    IF section \notin included /\ Len(cat[field]) > 0
    THEN [cat EXCEPT !.Uncategorized = Append(@, merged), ![field] = <<>>]
    ELSE cat

CollectDecls(cat, included, section, field, flat) ==
    IF section \notin included
    THEN [cat EXCEPT !.Uncategorized = @ \o flat, ![field] = <<>>]
    ELSE cat

CollectUncategorized(cat, included) ==
    LET c1 == CollectSpecs(cat, included, "exported_consts", "ExportedConsts",
                           MergeConstSpecs(cat.ExportedConsts, "// Exported constants."))
        c2 == CollectSpecs(c1, included, "exported_vars", "ExportedVars",
                           MergeVarSpecs(c1.ExportedVars, "// Exported variables."))
        c3 == CollectDecls(c2, included, "exported_funcs", "ExportedFuncs", c2.ExportedFuncs)
        c4 == CollectSpecs(c3, included, "unexported_consts", "UnexportedConsts",
                           MergeConstSpecs(c3.UnexportedConsts, "// unexported constants."))
        c5 == CollectSpecs(c4, included, "unexported_vars", "UnexportedVars",
                           MergeVarSpecs(c4.UnexportedVars, "// unexported variables."))
        c6 == CollectDecls(c5, included, "unexported_funcs", "UnexportedFuncs", c5.UnexportedFuncs)
        c7 == CollectDecls(c6, included, "exported_types", "ExportedTypes",
                           FlattenTypeGroups(c6.ExportedTypes))
        c8 == CollectDecls(c7, included, "unexported_types", "UnexportedTypes",
                           FlattenTypeGroups(c7.UnexportedTypes))
        c9 == CollectDecls(c8, included, "exported_enums", "ExportedEnums",
                           FlattenEnumGroups(c8.ExportedEnums))
    IN CollectDecls(c9, included, "unexported_enums", "UnexportedEnums",
                    FlattenEnumGroups(c9.UnexportedEnums))

\* the sections FindExcludedSections tests, in the order it tests them, each
\* with the bucket whose content it looks at
ExcludedChecks ==
    << <<"main", "Main">>, <<"init", "Init">>,
       <<"exported_consts", "ExportedConsts">>, <<"exported_vars", "ExportedVars">>,
       <<"exported_funcs", "ExportedFuncs">>, <<"exported_types", "ExportedTypes">>,
       <<"exported_enums", "ExportedEnums">>,
       <<"unexported_consts", "UnexportedConsts">>, <<"unexported_vars", "UnexportedVars">>,
       <<"unexported_funcs", "UnexportedFuncs">>, <<"unexported_types", "UnexportedTypes">>,
       <<"unexported_enums", "UnexportedEnums">>,
       <<"uncategorized", "Uncategorized">> >>

\* does the bucket hold content (cat.Main != nil, len(bucket) > 0)
HasContent(cat, field) == IF field = "Main" THEN cat.Main # Nil ELSE Len(cat[field]) > 0

FindExcludedSections(cat, included) ==
    SelectSeq([i \in 1..Len(ExcludedChecks) |->
                  IF ExcludedChecks[i][1] \notin included /\ HasContent(cat, ExcludedChecks[i][2])
                  THEN ExcludedChecks[i][1] ELSE ""],
              LAMBDA x : x # "")

(* ------------------------------ emitters -------------------------------- *)

\* an emission that renders the value block after the listed elements when
\* the layout leaves it out
emitEnumGroup_AlwaysValues(eg, layout) ==
    Flatten([i \in 1..Len(layout) |->
        CASE layout[i] = "typedef" -> OptDecl(eg.TypeDecl)
          [] layout[i] = "iota" ->
                <<[eg.ConstDecl EXCEPT !.start = StartComment("// values.", eg.TypeName)]>>
          [] layout[i] = "exported_methods" -> eg.ExportedMethods
          [] layout[i] = "unexported_methods" -> eg.UnexportedMethods
          [] OTHER -> <<>>])
    \o (IF \E i \in 1..Len(layout) : layout[i] = "iota" THEN <<>>
        ELSE <<[eg.ConstDecl EXCEPT !.start = StartComment("// values.", eg.TypeName)]>>)

emitEnumGroup(eg, layout) ==
    Flatten([i \in 1..Len(layout) |->
        CASE layout[i] = "typedef" -> OptDecl(eg.TypeDecl)
          [] layout[i] = "iota" ->
                <<[eg.ConstDecl EXCEPT !.start = StartComment("// values.", eg.TypeName)]>>
          [] layout[i] = "exported_methods" -> eg.ExportedMethods
          [] layout[i] = "unexported_methods" -> eg.UnexportedMethods
          [] OTHER -> <<>>])

emitEnumGroups(groups, layout) ==
    Flatten([i \in 1..Len(groups) |-> emitEnumGroup(groups[i], layout)])

\* an emission in the fixed order typedef, constructors, methods of the
\* elements the layout names
emitTypeGroup_FixedLayout(tg, layout) ==
    LET named == {layout[i] : i \in 1..Len(layout)} IN
    (IF "typedef" \in named THEN OptDecl(tg.TypeDecl) ELSE <<>>)
    \o (IF "constructors" \in named THEN tg.Constructors ELSE <<>>)
    \o (IF "exported_methods" \in named THEN tg.ExportedMethods ELSE <<>>)
    \o (IF "unexported_methods" \in named THEN tg.UnexportedMethods ELSE <<>>)

emitTypeGroup(tg, layout) ==
    Flatten([i \in 1..Len(layout) |->
        CASE layout[i] = "typedef" -> OptDecl(tg.TypeDecl)
          [] layout[i] = "constructors" -> tg.Constructors
          [] layout[i] = "exported_methods" -> tg.ExportedMethods
          [] layout[i] = "unexported_methods" -> tg.UnexportedMethods
          [] OTHER -> <<>>])

emitTypeGroups(groups, layout) ==
    Flatten([i \in 1..Len(groups) |-> emitTypeGroup(groups[i], layout)])

emitConsts(specs, comment) ==
    IF Len(specs) = 0 THEN <<>> ELSE <<MergeConstSpecs(specs, comment)>>

emitVars(specs, comment) ==
    IF Len(specs) = 0 THEN <<>> ELSE <<MergeVarSpecs(specs, comment)>>

\* the registry: the emitter of a section name applied to cat and cfg; an
\* unknown name has no emitter and contributes nothing
Emit(section, cat, cfg) ==
    CASE section = "imports" -> cat.Imports
      [] section = "main" -> OptDecl(cat.Main)
      [] section = "init" -> cat.Init
      [] section = "exported_consts" -> emitConsts(cat.ExportedConsts, "// Exported constants.")
      [] section = "exported_enums" -> emitEnumGroups(cat.ExportedEnums, cfg.EnumLayout)
      [] section = "exported_vars" -> emitVars(cat.ExportedVars, "// Exported variables.")
      [] section = "exported_types" -> emitTypeGroups(cat.ExportedTypes, cfg.TypeLayout)
      [] section = "exported_funcs" -> cat.ExportedFuncs
      [] section = "unexported_consts" -> emitConsts(cat.UnexportedConsts, "// unexported constants.")
      [] section = "unexported_enums" -> emitEnumGroups(cat.UnexportedEnums, cfg.EnumLayout)
      [] section = "unexported_vars" -> emitVars(cat.UnexportedVars, "// unexported variables.")
      [] section = "unexported_types" -> emitTypeGroups(cat.UnexportedTypes, cfg.TypeLayout)
      [] section = "unexported_funcs" -> cat.UnexportedFuncs
      [] section = "uncategorized" -> cat.Uncategorized
      [] OTHER -> <<>>

\* the keys of the package-level emitters map
RegisteredSections ==
    {"imports", "main", "init", "exported_consts", "exported_enums", "exported_vars",
     "exported_types", "exported_funcs", "unexported_consts", "unexported_enums",
     "unexported_vars", "unexported_types", "unexported_funcs", "uncategorized"}

(* ----------------------------- reassembly ------------------------------- *)

SeqToSet(s) == {s[i] : i \in 1..Len(s)}

\* a collection step that does not exempt Mode = drop
CollectStep_AnyMode(cat, cfg) == CollectUncategorized(cat, SeqToSet(cfg.Order))

\* step 2 of DeclarationsWithOrder: the categorized declarations the
\* emitters are run on
CollectStep(cat, cfg) ==
    IF cfg.Mode # "drop" THEN CollectUncategorized(cat, SeqToSet(cfg.Order)) ELSE cat

\* an emission that walks the default order and emits the sections Order names
EmitSections_DefaultOrder(cat, cfg) ==
    LET named == SelectSeq(<<"imports", "main", "init", "exported_consts", "exported_enums",
                             "exported_vars", "exported_types", "exported_funcs",
                             "unexported_consts", "unexported_enums", "unexported_vars",
                             "unexported_types", "unexported_funcs", "uncategorized">>,
                           LAMBDA x : x \in SeqToSet(cfg.Order))
    IN Flatten([i \in 1..Len(named) |-> Emit(named[i], cat, cfg)])

\* step 3: every section of Order emitted in turn
EmitSections(cat, cfg) ==
    Flatten([i \in 1..Len(cfg.Order) |-> Emit(cfg.Order[i], cat, cfg)])

DeclarationsWithOrder(cat, cfg) == EmitSections(CollectStep(cat, cfg), cfg)

\* reassemble.Declarations: the fixed order behind reorder.File and reorder.Source
Declarations(cat) ==
    LET enumGrp(eg) ==
            OptDecl(eg.TypeDecl)
            \o <<[eg.ConstDecl EXCEPT !.start = StartComment("// values.", eg.TypeName)]>>
            \o eg.ExportedMethods \o eg.UnexportedMethods
        typeGrp(tg) ==
            OptDecl(tg.TypeDecl) \o tg.Constructors \o tg.ExportedMethods \o tg.UnexportedMethods
        consts(specs, comment) ==
            IF Len(specs) > 0 THEN <<MergeConstSpecs(specs, comment)>> ELSE <<>>
        vars_(specs, comment) ==
            IF Len(specs) > 0 THEN <<MergeVarSpecs(specs, comment)>> ELSE <<>>
    IN cat.Imports
       \o OptDecl(cat.Main)
       \o consts(cat.ExportedConsts, "// Exported constants.")
       \o Flatten([i \in 1..Len(cat.ExportedEnums) |-> enumGrp(cat.ExportedEnums[i])])
       \o vars_(cat.ExportedVars, "// Exported variables.")
       \o Flatten([i \in 1..Len(cat.ExportedTypes) |-> typeGrp(cat.ExportedTypes[i])])
       \o cat.ExportedFuncs
       \o consts(cat.UnexportedConsts, "// unexported constants.")
       \o Flatten([i \in 1..Len(cat.UnexportedEnums) |-> enumGrp(cat.UnexportedEnums[i])])
       \o vars_(cat.UnexportedVars, "// unexported variables.")
       \o Flatten([i \in 1..Len(cat.UnexportedTypes) |-> typeGrp(cat.UnexportedTypes[i])])
       \o cat.UnexportedFuncs

(* ----------------------------- configuration --------------------------- *)

DefaultOrder ==
    <<"imports", "main", "init", "exported_consts", "exported_enums", "exported_vars",
      "exported_types", "exported_funcs", "unexported_consts", "unexported_enums",
      "unexported_vars", "unexported_types", "unexported_funcs", "uncategorized">>

DefaultTypeLayout == <<"typedef", "constructors", "exported_methods", "unexported_methods">>

DefaultEnumLayout == <<"typedef", "iota", "exported_methods", "unexported_methods">>

MakeConfig(order, typeLayout, enumLayout, mode) ==
    [Order |-> order, TypeLayout |-> typeLayout, EnumLayout |-> enumLayout, Mode |-> mode]

DefaultConfig == MakeConfig(DefaultOrder, DefaultTypeLayout, DefaultEnumLayout, "strict")

ValidModes == {"strict", "warn", "append", "drop"}

ValidSections ==
    {"imports", "main", "init", "exported_consts", "exported_enums", "exported_vars",
     "exported_types", "exported_funcs", "unexported_consts", "unexported_enums",
     "unexported_vars", "unexported_types", "unexported_funcs", "uncategorized"}

ValidTypeLayoutElements == {"typedef", "constructors", "exported_methods", "unexported_methods"}

ValidEnumLayoutElements == {"typedef", "iota", "exported_methods", "unexported_methods"}

\* one validation loop of Config.Validate: the first name that is unknown or
\* was seen before ends it with that error
RECURSIVE ValidateNames(_, _, _, _)
ValidateNames(names, valid, seen, what) ==
    IF names = <<>> THEN "nil"
    ELSE IF Head(names) \notin valid THEN "unknown " \o what
    ELSE IF Head(names) \in seen THEN "duplicate " \o what
    ELSE ValidateNames(Tail(names), valid, seen \cup {Head(names)}, what)

\* a validation that accepts any mode
Validate_AnyMode(c) ==
    LET sections == ValidateNames(c.Order, ValidSections, {}, "section")
        typeLayout == ValidateNames(c.TypeLayout, ValidTypeLayoutElements, {}, "type layout element")
        enumLayout == ValidateNames(c.EnumLayout, ValidEnumLayoutElements, {}, "enum layout element")
    IN IF sections # "nil" THEN sections
       ELSE IF typeLayout # "nil" THEN typeLayout
       ELSE enumLayout

\* Config.Validate: nil, or the first error found
Validate(c) ==
    LET sections == ValidateNames(c.Order, ValidSections, {}, "section")
        typeLayout == ValidateNames(c.TypeLayout, ValidTypeLayoutElements, {}, "type layout element")
        enumLayout == ValidateNames(c.EnumLayout, ValidEnumLayoutElements, {}, "enum layout element")
    IN IF sections # "nil" THEN sections
       ELSE IF typeLayout # "nil" THEN typeLayout
       ELSE IF enumLayout # "nil" THEN enumLayout
       ELSE IF c.Mode \notin ValidModes THEN "unknown mode"
       ELSE "nil"

\* Sections.Order values the calls are made with: the default, the orders
\* used by the repository's tests (one of them with functions ahead of
\* constants), and the default without one section
Without(order, section) == SelectSeq(order, LAMBDA x : x # section)

\* functions ahead of constants (TestSourceWithConfig_CustomOrder)
CustomOrder == <<"imports", "main", "exported_funcs", "exported_consts", "uncategorized">>

Orders ==
    {DefaultOrder,
     <<"imports", "main">>,
     <<"imports", "uncategorized">>,
     <<"exported_funcs">>,
     <<"imports", "exported_enums", "uncategorized">>,
     CustomOrder,
     Without(DefaultOrder, "main")}

\* the modes each order is called with: the default order with every mode,
\* the tests' orders with the tests' modes (TestSourceWithConfig_CustomOrder,
\* _ModeAppend, _ModeDrop, TestStrictModeError) and with one more mode where
\* the code tells modes apart (drop or not), the default without "main" with
\* every mode that collects
ModesOf(order) ==
    IF order = DefaultOrder THEN ValidModes
    ELSE IF order = CustomOrder THEN {"strict"}
    ELSE IF order = <<"imports", "uncategorized">> THEN {"append", "warn"}
    ELSE IF order = <<"exported_funcs">> THEN {"drop", "strict"}
    ELSE IF order = <<"imports", "main">> THEN {"strict"}
    ELSE IF order = <<"imports", "exported_enums", "uncategorized">> THEN {"append"}
    ELSE {"strict", "warn", "append"}

\* layouts that leave elements out and change their order
MethodsFirstTypeLayout == <<"exported_methods", "typedef">>

NoIotaEnumLayout == <<"exported_methods", "typedef">>

\* Configs that Config.Validate rejects: an unknown section, a duplicated
\* section, an unrecognized mode
InvalidConfigs ==
    {MakeConfig(<<"bogus">>, DefaultTypeLayout, DefaultEnumLayout, "strict"),
     MakeConfig(<<"imports", "imports">>, DefaultTypeLayout, DefaultEnumLayout, "strict"),
     MakeConfig(DefaultOrder, DefaultTypeLayout, DefaultEnumLayout, "invalid")}

Configs ==
    UNION {{MakeConfig(o, DefaultTypeLayout, DefaultEnumLayout, m) : m \in ModesOf(o)} : o \in Orders}
    \cup {MakeConfig(DefaultOrder, MethodsFirstTypeLayout, NoIotaEnumLayout, m) : m \in ValidModes}
    \cup InvalidConfigs

\* what a configuration file can say: section names, layouts and modes, valid
\* and not
FileSectionNames == {"imports", "main", "bogus"}

RECURSIVE SeqsUpTo(_, _)
SeqsUpTo(S, n) ==
    IF n = 0 THEN {<<>>}
    ELSE SeqsUpTo(S, n - 1) \cup {Append(q, x) : q \in SeqsUpTo(S, n - 1), x \in S}

FileOrders == SeqsUpTo(FileSectionNames, MaxOrderLen) \cup {DefaultOrder}

FileTypeLayouts == {DefaultTypeLayout, <<"typedef", "typedef">>, <<"iota">>, <<>>}

FileEnumLayouts == {DefaultEnumLayout, <<"iota", "iota">>, <<"constructors">>}

FileModes == ValidModes \cup {"invalid", ""}

FileConfigs ==
    {MakeConfig(o, tl, el, m) :
        o \in FileOrders, tl \in FileTypeLayouts, el \in FileEnumLayouts, m \in FileModes}

(* -------------------------------- inputs -------------------------------- *)

\* the declarations input files are made of
Pool ==
    << ImportDecl(1),
       FuncDecl(2, N_main, NoExpr, <<>>),
       FuncDecl(3, N_init, NoExpr, <<>>),
       ConstDecl(<<ValueSpec(4, N_V, NoExpr, FALSE)>>, NoStart),
       ConstDecl(<<ValueSpec(5, N_A, Ident(N_T), FALSE)>>, NoStart),
       ConstDecl(<<ValueSpec(6, N_B, NoExpr, TRUE), ValueSpec(7, N_C, NoExpr, FALSE)>>, UserDoc),
       ConstDecl(<<ValueSpec(8, N_Red, Ident(N_T), TRUE), ValueSpec(9, N_Green, NoExpr, FALSE)>>, NoStart),
       VarDecl(<<ValueSpec(10, N_v, NoExpr, FALSE), ValueSpec(23, N_u, NoExpr, FALSE)>>, NoStart),
       TypeDecl(<<TypeSpec(11, N_T)>>),
       FuncDecl(12, N_String, Star(Ident(N_T)), <<>>),
       FuncDecl(13, N_NewT, NoExpr, <<Star(Ident(N_T))>>),
       FuncDecl(14, N_Helper, NoExpr, <<>>),
       FuncDecl(15, N_helper, NoExpr, <<>>),
       FuncDecl(16, N_String, Star(Index(Ident(N_U))), <<>>),
       ConstDecl(<<ValueSpec(17, N_X, Ident(N_T), TRUE)>>, NoStart),
       ConstDecl(<<ValueSpec(18, N_D, NoExpr, TRUE), ValueSpec(19, N_E, Ident(N_T), FALSE)>>, NoStart),
       FuncDecl(20, N_init, NoExpr, <<>>),
       FuncDecl(21, N_MustT, NoExpr, <<Ident(N_T)>>),
       FuncDecl(22, N_get, Ident(N_t), <<>>) >>

Min(S) == CHOOSE x \in S : \A y \in S : x <= y

RECURSIVE Ascending(_)
Ascending(S) == IF S = {} THEN <<>> ELSE <<Min(S)>> \o Ascending(S \ {Min(S)})

Reverse(s) == [i \in 1..Len(s) |-> s[Len(s) + 1 - i]]

\* input files: up to MaxDecls declarations of the pool, in pool order or in
\* the opposite order
Inputs ==
    LET picks == {S \in SUBSET (1..Len(Pool)) : Cardinality(S) \in 1..MaxDecls}
        files == {[i \in 1..Len(Ascending(S)) |-> Pool[Ascending(S)[i]]] : S \in picks}
    IN files \cup {Reverse(f) : f \in files}

(* ---------------------- parsing and printing (dst) ---------------------- *)

\* decorator.Parse: the text of a file as its top-level declarations, each
\* block with its header comment
Parse(text) == [i \in 1..Len(text) |-> text[i]]

\* restorer.Fprint: the declarations printed in list order
Fprint(decls) == [i \in 1..Len(decls) |-> decls[i]]

NoText == <<>>

(* ----------------------------- state machine ---------------------------- *)

VARIABLES
    src,      \* the source text SourceWithConfig is called with
    cfg,      \* the Config it is called with
    run,      \* 1 for the first call, 2 when its output is reordered again, ...
    pc,       \* position of the call
    file,     \* file.Decls of the parsed unit
    cat,      \* the CategorizedDecls of the call
    result,   \* the text the call returns
    err,      \* the error the call returns
    stderr,   \* warnings the call has signalled to its caller
    original, \* the text reorder.Source returns for the same input
    emitters  \* the package-level registry: the section names that have an emitter

vars == <<src, cfg, run, pc, file, cat, result, err, stderr, original, emitters>>

Init ==
    /\ src \in Inputs
    /\ cfg \in Configs
    /\ run = 1
    /\ pc = "parsed"
    /\ file = Parse(src)
    /\ cat = EmptyCat
    /\ result = NoText
    /\ err = "unset"
    /\ stderr = <<>>
    /\ original = NoText
    /\ emitters = RegisteredSections

\* FileWithConfig, first statement: cat := categorize.CategorizeDeclarations(file)
Categorize ==
    /\ pc = "parsed"
    /\ \E mapOrder \in MapOrders(file) : cat' = CategorizeDeclarations(file, mapOrder)
    /\ pc' = "categorized"
    /\ UNCHANGED <<src, cfg, run, file, result, err, stderr, original, emitters>>

\* FileWithConfig, rest: file.Decls = reassemble.DeclarationsWithOrder(cat, cfg); return nil
Reassemble ==
    /\ pc = "categorized"
    /\ cat' = CollectStep(cat, cfg)
    /\ file' = DeclarationsWithOrder(cat, cfg)
    /\ pc' = "reassembled"
    /\ UNCHANGED <<src, cfg, run, result, err, stderr, original, emitters>>

\* SourceWithConfig after FileWithConfig returned nil: print the file and return
Return ==
    /\ pc = "reassembled"
    /\ result' = Fprint(file)
    /\ err' = "nil"
    /\ pc' = "done"
    /\ UNCHANGED <<src, cfg, run, file, cat, stderr, original, emitters>>

\* the caller hands the returned text to SourceWithConfig again, same Config
Again ==
    /\ pc = "done"
    /\ err = "nil"
    /\ run < MaxRuns
    /\ src' = result
    /\ file' = Parse(result)
    /\ cat' = EmptyCat
    /\ result' = NoText
    /\ err' = "unset"
    /\ run' = run + 1
    /\ pc' = "parsed"
    /\ UNCHANGED <<cfg, stderr, original, emitters>>

\* the caller that used DefaultConfig() hands the same input to
\* reorder.Source: parse, File (CategorizeDeclarations, then
\* reassemble.Declarations), print
Source ==
    /\ pc = "done"
    /\ run = 1
    /\ cfg = DefaultConfig
    /\ \E mapOrder \in MapOrders(Parse(src)) :
          original' = Fprint(Declarations(CategorizeDeclarations(Parse(src), mapOrder)))
    /\ pc' = "compared"
    /\ UNCHANGED <<src, cfg, run, file, cat, result, err, stderr, emitters>>

Next == Categorize \/ Reassemble \/ Return \/ Again \/ Source

Spec == Init /\ [][Next]_vars

(* ---------------------- loading a configuration file --------------------- *)

\* LoadConfig has merged a configuration file into the defaults
LoadInit ==
    /\ cfg \in FileConfigs
    /\ pc = "merged"
    /\ src = NoText
    /\ run = 1
    /\ file = <<>>
    /\ cat = EmptyCat
    /\ result = NoText
    /\ err = "unset"
    /\ stderr = <<>>
    /\ original = NoText
    /\ emitters = RegisteredSections

\* LoadConfig, last step: cfg.Validate() decides between the config and an error
LoadConfig ==
    /\ pc = "merged"
    /\ err' = Validate(cfg)
    /\ pc' = "loaded"
    /\ UNCHANGED <<src, cfg, run, file, cat, result, stderr, original, emitters>>

LoadNext == LoadConfig

LoadSpec == LoadInit /\ [][LoadNext]_vars

(* ------------------- concurrent calls sharing one Config ----------------- *)

Goroutines == 1..MaxGoroutines

\* the source units the concurrent calls are made on
ConcUnits ==
    {<<Pool[13], Pool[12], Pool[9]>>,
     <<Pool[9], Pool[7], Pool[1]>>,
     <<Pool[15], Pool[14], Pool[4]>>,
     <<Pool[3], Pool[16], Pool[2]>>}

\* the Configs the goroutines share
ConcConfigs ==
    {DefaultConfig,
     MakeConfig(CustomOrder, DefaultTypeLayout, DefaultEnumLayout, "append"),
     MakeConfig(<<"imports", "uncategorized">>, DefaultTypeLayout, DefaultEnumLayout, "warn"),
     MakeConfig(<<"exported_funcs">>, DefaultTypeLayout, DefaultEnumLayout, "drop"),
     MakeConfig(DefaultOrder, MethodsFirstTypeLayout, NoIotaEnumLayout, "strict")}

\* every goroutine has parsed its own unit; cfg and emitters are the one
\* Config and the one registry all of them read
ConcInit ==
    /\ cfg \in ConcConfigs
    /\ src \in [Goroutines -> ConcUnits]
    /\ pc = [g \in Goroutines |-> "parsed"]
    /\ file = [g \in Goroutines |-> Parse(src[g])]
    /\ cat = [g \in Goroutines |-> EmptyCat]
    /\ result = [g \in Goroutines |-> NoText]
    /\ err = [g \in Goroutines |-> "unset"]
    /\ run = 1
    /\ stderr = <<>>
    /\ original = NoText
    /\ emitters = RegisteredSections

\* the emission loop of DeclarationsWithOrder: the emitter of each section of
\* Order is looked up in the registry; a name without one is skipped
EmitRegistered(c, config, registry) ==
    Flatten([i \in 1..Len(config.Order) |->
                IF config.Order[i] \in registry THEN Emit(config.Order[i], c, config) ELSE <<>>])

\* goroutine g: cat := categorize.CategorizeDeclarations(file)
GoCategorize(g) ==
    /\ pc[g] = "parsed"
    /\ \E mapOrder \in MapOrders(file[g]) :
          cat' = [cat EXCEPT ![g] = CategorizeDeclarations(file[g], mapOrder)]
    /\ pc' = [pc EXCEPT ![g] = "categorized"]
    /\ UNCHANGED <<src, cfg, run, file, result, err, stderr, original, emitters>>

\* a collection step that also makes sure the shared Config names the
\* uncategorized section
GoCollect_NormalizesOrder(g) ==
    /\ pc[g] = "categorized"
    /\ cat' = [cat EXCEPT ![g] = CollectStep(cat[g], cfg)]
    /\ cfg' = IF "uncategorized" \in SeqToSet(cfg.Order) THEN cfg
              ELSE [cfg EXCEPT !.Order = Append(@, "uncategorized")]
    /\ pc' = [pc EXCEPT ![g] = "collected"]
    /\ UNCHANGED <<src, run, file, result, err, stderr, original, emitters>>

\* goroutine g, DeclarationsWithOrder: the sections of cfg.Order are read into
\* a local set and, unless Mode = drop, CollectUncategorized rewrites g's cat
GoCollect(g) ==
    /\ pc[g] = "categorized"
    /\ cat' = [cat EXCEPT ![g] = CollectStep(cat[g], cfg)]
    /\ pc' = [pc EXCEPT ![g] = "collected"]
    /\ UNCHANGED <<src, cfg, run, file, result, err, stderr, original, emitters>>

\* goroutine g, DeclarationsWithOrder: the emission loop; file.Decls = reordered
GoEmit(g) ==
    /\ pc[g] = "collected"
    /\ file' = [file EXCEPT ![g] = EmitRegistered(cat[g], cfg, emitters)]
    /\ pc' = [pc EXCEPT ![g] = "reassembled"]
    /\ UNCHANGED <<src, cfg, run, cat, result, err, stderr, original, emitters>>

\* goroutine g, SourceWithConfig: print the file and return
GoReturn(g) ==
    /\ pc[g] = "reassembled"
    /\ result' = [result EXCEPT ![g] = Fprint(file[g])]
    /\ err' = [err EXCEPT ![g] = "nil"]
    /\ pc' = [pc EXCEPT ![g] = "done"]
    /\ UNCHANGED <<src, cfg, run, file, cat, stderr, original, emitters>>

ConcNext == \E g \in Goroutines : GoCategorize(g) \/ GoCollect(g) \/ GoEmit(g) \/ GoReturn(g)

ConcSpec == ConcInit /\ [][ConcNext]_vars

(* ------------------------- sorting on its own ---------------------------- *)

\* the specs of a var block of thirteen unexported names, two of them the
\* blank identifier (var _ I = (*T)(nil) and the like)
LongVars ==
    << ValueSpec(31, N_blank, NoExpr, FALSE),
       ValueSpec(32, N_blank, NoExpr, FALSE),
       ValueSpec(33, <<97>>, NoExpr, FALSE),
       ValueSpec(34, <<122>>, NoExpr, FALSE),
       ValueSpec(35, <<98>>, NoExpr, FALSE),
       ValueSpec(36, <<99>>, NoExpr, FALSE),
       ValueSpec(37, <<100>>, NoExpr, FALSE),
       ValueSpec(38, <<101>>, NoExpr, FALSE),
       ValueSpec(39, <<102>>, NoExpr, FALSE),
       ValueSpec(40, <<109>>, NoExpr, FALSE),
       ValueSpec(41, <<103>>, NoExpr, FALSE),
       ValueSpec(42, <<104>>, NoExpr, FALSE),
       ValueSpec(43, <<105>>, NoExpr, FALSE) >>

\* a list started at its r-th entry instead of its first
Rotate(s, r) == [i \in 1..Len(s) |-> s[((i + r - 1) % Len(s)) + 1]]

\* the CategorizedDecls SortCategorized is handed: the unexported var bucket
\* filled, in file order, from a var block of up to thirteen specs
SortInputs ==
    {[EmptyCat EXCEPT !.UnexportedVars = SubSeq(Rotate(LongVars, r), 1, n)] :
        r \in 0..(Len(LongVars) - 1), n \in 0..Len(LongVars)}

\* Passes 1 to 4 have filled the buckets
SortInit ==
    /\ cat \in SortInputs
    /\ pc = "filled"
    /\ original = NoText
    /\ src = NoText
    /\ cfg = DefaultConfig
    /\ run = 1
    /\ file = <<>>
    /\ result = NoText
    /\ err = "unset"
    /\ stderr = <<>>
    /\ emitters = RegisteredSections

\* SortCategorized(cat), at the end of CategorizeDeclarations; original keeps
\* the buckets as they were before the call
Sort ==
    /\ pc = "filled"
    /\ original' = cat
    /\ cat' = SortCategorized(cat)
    /\ pc' = "sorted"
    /\ UNCHANGED <<src, cfg, run, file, result, err, stderr, emitters>>

\* SortCategorized on the sorted buckets, as when the output is reordered again
SortAgain ==
    /\ pc = "sorted"
    /\ original' = cat
    /\ cat' = SortCategorized(cat)
    /\ pc' = "resorted"
    /\ UNCHANGED <<src, cfg, run, file, result, err, stderr, emitters>>

SortNext == Sort \/ SortAgain

SortSpec == SortInit /\ [][SortNext]_vars

(* ------------------------ vocabulary of the claims ---------------------- *)

\* the 14 section names, each with the bucket of CategorizedDecls it names
SectionField(section) ==
    CASE section = "imports" -> "Imports"
      [] section = "main" -> "Main"
      [] section = "init" -> "Init"
      [] section = "exported_consts" -> "ExportedConsts"
      [] section = "exported_enums" -> "ExportedEnums"
      [] section = "exported_vars" -> "ExportedVars"
      [] section = "exported_types" -> "ExportedTypes"
      [] section = "exported_funcs" -> "ExportedFuncs"
      [] section = "unexported_consts" -> "UnexportedConsts"
      [] section = "unexported_enums" -> "UnexportedEnums"
      [] section = "unexported_vars" -> "UnexportedVars"
      [] section = "unexported_types" -> "UnexportedTypes"
      [] section = "unexported_funcs" -> "UnexportedFuncs"
      [] section = "uncategorized" -> "Uncategorized"

AllSections == SeqToSet(DefaultOrder)

\* ids of everything one section's bucket holds, whatever the layouts
SectionIds(c, section) ==
    LET b == c[SectionField(section)] IN
    CASE section = "main" -> IdsOf(OptDecl(b))
      [] section \in {"imports", "init", "exported_funcs", "unexported_funcs", "uncategorized"} -> IdsOf(b)
      [] section \in {"exported_consts", "unexported_consts", "exported_vars", "unexported_vars"} ->
            [i \in 1..Len(b) |-> b[i].id]
      [] section \in {"exported_enums", "unexported_enums"} -> IdsOf(FlattenEnumGroups(b))
      [] section \in {"exported_types", "unexported_types"} -> IdsOf(FlattenTypeGroups(b))

\* ids of everything reachable from a CategorizedDecls, bucket by bucket
ReachableIds(c) == Flatten([i \in 1..Len(DefaultOrder) |-> SectionIds(c, DefaultOrder[i])])

\* sections that hold content and are not named in Sections.Order
Unconfigured(c, config) ==
    {s \in AllSections : s \notin SeqToSet(config.Order) /\ HasContent(c, SectionField(s))}

\* a well-formed input: no declaration occurs twice
WellFormed(text) == Cardinality(SeqToSet(IdsOf(text))) = Len(IdsOf(text))

\* the CategorizedDecls of a text, for one of the orders its map can be ranged in
CategorizedOf(text) ==
    CategorizeDeclarations(Parse(text), CHOOSE o \in MapOrders(Parse(text)) : TRUE)

(* --------------------------------- C1 ----------------------------------- *)

\* C1 (conservation): whenever a call with Mode strict, warn or append on a
\* well-formed input has returned successfully, the multiset of declarations
\* of the output equals that of the input.
C1_Conservation ==
    (pc = "done" /\ err = "nil" /\ cfg.Mode \in {"strict", "warn", "append"} /\ WellFormed(src))
        => DeclBag(result) = DeclBag(src)

(* --------------------------------- C2 ----------------------------------- *)

\* C2: with Mode = strict the call fails if and only if some section that is
\* not named in Sections.Order holds content.
C2_StrictFailsIff ==
    (pc = "done" /\ cfg.Mode = "strict" /\ WellFormed(src))
        => ((err # "nil") <=> (Unconfigured(CategorizedOf(src), cfg) # {}))

(* --------------------------------- C3 ----------------------------------- *)

\* C3: the sections a strict-mode rejection names (FindExcludedSections on the
\* categorized declarations) are exactly the sections that hold content and
\* are not named in Sections.Order, for any of the 14 section names.
C3_NamesEveryOffender ==
    (pc = "categorized" /\ cfg.Mode = "strict" /\ WellFormed(src))
        => SeqToSet(FindExcludedSections(cat, SeqToSet(cfg.Order))) = Unconfigured(cat, cfg)

(* --------------------------------- C5 ----------------------------------- *)

\* C5 (idempotence): when the output of a successful call on a well-formed
\* input is reordered again under the same Config, the second output equals
\* the first: f(f(x), cfg) = f(x, cfg).
C5_Idempotent ==
    (pc = "done" /\ run = 2 /\ err = "nil") => result = src

(* --------------------------------- C6 ----------------------------------- *)

\* ids of the elements of a type group that a layout names
TypeLayoutIds(tg, layout) ==
    IdsOf((IF "typedef" \in SeqToSet(layout) THEN OptDecl(tg.TypeDecl) ELSE <<>>)
          \o (IF "constructors" \in SeqToSet(layout) THEN tg.Constructors ELSE <<>>)
          \o (IF "exported_methods" \in SeqToSet(layout) THEN tg.ExportedMethods ELSE <<>>)
          \o (IF "unexported_methods" \in SeqToSet(layout) THEN tg.UnexportedMethods ELSE <<>>))

\* ids of the elements of an enum group that a layout names
EnumLayoutIds(eg, layout) ==
    IdsOf((IF "typedef" \in SeqToSet(layout) THEN OptDecl(eg.TypeDecl) ELSE <<>>)
          \o (IF "iota" \in SeqToSet(layout) THEN OptDecl(eg.ConstDecl) ELSE <<>>)
          \o (IF "exported_methods" \in SeqToSet(layout) THEN eg.ExportedMethods ELSE <<>>)
          \o (IF "unexported_methods" \in SeqToSet(layout) THEN eg.UnexportedMethods ELSE <<>>))

\* ids of what one section holds, groups cut down to the elements the layouts name
SectionLayoutIds(c, section, config) ==
    LET b == c[SectionField(section)] IN
    IF section \in {"exported_enums", "unexported_enums"}
    THEN Flatten([i \in 1..Len(b) |-> EnumLayoutIds(b[i], config.EnumLayout)])
    ELSE IF section \in {"exported_types", "unexported_types"}
    THEN Flatten([i \in 1..Len(b) |-> TypeLayoutIds(b[i], config.TypeLayout)])
    ELSE SectionIds(c, section)

\* C6 as stated: with Mode = drop nothing is moved into Uncategorized, the call
\* does not fail, and the output holds exactly the declarations that belong
\* to the sections named in Sections.Order.
C6_DropAllOfNamed ==
    (pc \in {"reassembled", "done"} /\ cfg.Mode = "drop" /\ WellFormed(src))
        => /\ cat.Uncategorized = <<>>
           /\ pc = "done" => err = "nil"
           /\ LET c == CategorizedOf(src) IN
              DeclBag(file) = SeqToBag(Flatten([i \in 1..Len(cfg.Order) |->
                                  SectionIds(c, cfg.Order[i])]))

\* C6 amended: with Mode = drop nothing is moved into Uncategorized, the call
\* does not fail, and the output holds exactly the declarations of the
\* sections named in Sections.Order that the layouts name (for a type or enum
\* group, only the elements listed in TypeLayout / EnumLayout).
C6_DropRenderedOfNamed ==
    (pc \in {"reassembled", "done"} /\ cfg.Mode = "drop" /\ WellFormed(src))
        => /\ cat.Uncategorized = <<>>
           /\ pc = "done" => err = "nil"
           /\ LET c == CategorizedOf(src) IN
              SameBag(IdsOf(file), Flatten([i \in 1..Len(cfg.Order) |->
                                      SectionLayoutIds(c, cfg.Order[i], cfg)]))

\* a drop-mode call has returned and content of an unnamed section is gone
C6_Witness ==
    /\ pc = "done" /\ run = 1 /\ cfg.Mode = "drop"
    /\ Unconfigured(CategorizedOf(src), cfg) # {}
    /\ result # NoText
    /\ DeclBag(result) # DeclBag(src)

(* --------------------------------- C7 ----------------------------------- *)

\* C7: with Mode = warn or append the call returns successfully and the
\* content of every section missing from Sections.Order has been folded into
\* Uncategorized.
C7_WarnAppendFold ==
    (pc = "done" /\ cfg.Mode \in {"warn", "append"} /\ WellFormed(src))
        => /\ err = "nil"
           /\ \A s \in Unconfigured(CategorizedOf(src), cfg) :
                 SeqToSet(SectionIds(CategorizedOf(src), s)) \subseteq SeqToSet(IdsOf(cat.Uncategorized))

(* --------------------------------- C8 ----------------------------------- *)

\* C8: when content of an unconfigured section has been folded into
\* Uncategorized, a call with Mode = warn has signalled a warning to its
\* caller and a call with Mode = append has not.
C8_WarnSignals ==
    (pc = "done" /\ cat.Uncategorized # <<>> /\ WellFormed(src))
        => /\ cfg.Mode = "warn" => stderr # <<>>
           /\ cfg.Mode = "append" => stderr = <<>>

(* --------------------------------- C9 ----------------------------------- *)

\* C9 (determinism): the categorized declarations and the returned text are
\* the ones every other call with the same input and Config produces,
\* whatever order the type-group map is ranged over in.
C9_Deterministic ==
    /\ pc = "categorized" =>
          LET st == BeforePass4(file) IN
          \A o \in SeqsOver(DOMAIN st.typeGroups) :
              cat = SortCategorized(Deref(AddMethodOnly(st, o)))
    /\ pc = "done" =>
          LET st == BeforePass4(Parse(src)) IN
          \A o \in SeqsOver(DOMAIN st.typeGroups) :
              result = Fprint(DeclarationsWithOrder(SortCategorized(Deref(AddMethodOnly(st, o))), cfg))

\* a call has returned whose type-group map held two groups that Pass 4 adds,
\* so that the map's order decides the order they are appended in
MethodOnly(c) ==
    {i \in 1..Len(c.ExportedTypes) : c.ExportedTypes[i].TypeDecl = Nil}

C9_Witness ==
    /\ pc = "done" /\ run = 1
    /\ Cardinality(MethodOnly(CategorizedOf(src))) >= 2
    /\ Len(result) >= 2

(* --------------------------------- C10 ---------------------------------- *)

\* C10: after categorization every declaration of a well-formed unit occupies
\* exactly one location in CategorizedDecls.
C10_ExactlyOneLocation ==
    (pc = "categorized" /\ WellFormed(src))
        => SeqToBag(ReachableIds(cat)) = DeclBag(src)

(* --------------------------------- C11 ---------------------------------- *)

\* the const blocks of a file that use iota and carry no type annotation on
\* any spec
UntypedIotaBlocks(decls) ==
    {i \in 1..Len(decls) :
        /\ IsIotaBlock(decls[i])
        /\ \A j \in 1..Len(decls[i].specs) : decls[i].specs[j].typ = NoExpr}

\* ids of the value blocks of the enum groups of a CategorizedDecls
EnumBlockIds(c) ==
    UNION {SeqToSet(DeclIds(c.ExportedEnums[i].ConstDecl)) : i \in 1..Len(c.ExportedEnums)}
    \cup UNION {SeqToSet(DeclIds(c.UnexportedEnums[i].ConstDecl)) : i \in 1..Len(c.UnexportedEnums)}

\* C11 (enum boundary): after categorization, a const block that uses iota and
\* carries no type annotation is the value block of no enum group, and each of
\* its specs is in the exported or unexported constants bucket, by the case of
\* its first name.
C11_EnumBoundary ==
    pc = "categorized" =>
        \A i \in UntypedIotaBlocks(file) :
            \A j \in 1..Len(file[i].specs) :
                LET vspec == file[i].specs[j] IN
                /\ vspec.id \notin EnumBlockIds(cat)
                /\ IF IsExported(vspec.name)
                   THEN vspec \in SeqToSet(cat.ExportedConsts)
                   ELSE vspec \in SeqToSet(cat.UnexportedConsts)

\* an untyped iota block has been categorized, next to an enum block
C11_Witness ==
    /\ pc = "categorized"
    /\ UntypedIotaBlocks(file) # {}
    /\ EnumBlockIds(cat) # {}
    /\ Len(cat.ExportedConsts) >= 2

(* --------------------------------- C12 ---------------------------------- *)

\* the const blocks of a file that use iota and carry a named-type annotation
\* on at least one spec, at any position
TypedIotaBlocks(decls) ==
    {i \in 1..Len(decls) :
        /\ IsIotaBlock(decls[i])
        /\ \E j \in 1..Len(decls[i].specs) :
              /\ decls[i].specs[j].typ # NoExpr
              /\ ExtractTypeName(decls[i].specs[j].typ) # NoName}

\* C12: after categorization, every const block that uses iota and carries a
\* named-type annotation on at least one spec, at any position in the block,
\* is the value block of an enum group.
C12_TypedIotaIsEnum ==
    pc = "categorized" =>
        \A i \in TypedIotaBlocks(file) :
            \E g \in SeqToSet(cat.ExportedEnums) \cup SeqToSet(cat.UnexportedEnums) :
                g.ConstDecl = file[i]

(* --------------------------------- C13 ---------------------------------- *)

\* the type groups of a CategorizedDecls
TypeGroupsOf(c) == SeqToSet(c.ExportedTypes) \cup SeqToSet(c.UnexportedTypes)

\* the standalone functions of a CategorizedDecls
StandaloneOf(c) == SeqToSet(c.ExportedFuncs) \cup SeqToSet(c.UnexportedFuncs)

\* the no-receiver functions of a file other than main and init
PlainFuncs(decls) ==
    {i \in 1..Len(decls) :
        /\ decls[i].kind = "func"
        /\ decls[i].recv = NoExpr
        /\ decls[i].name \notin {N_main, N_init}}

\* a New/Must function whose first return type is X or *X for a type X that
\* the file defines
IsConstructorOfKnown(fn, decls) ==
    /\ HasPrefix(fn.name, P_New) \/ HasPrefix(fn.name, P_Must)
    /\ getFirstReturnTypeName(fn) # NoName
    /\ getFirstReturnTypeName(fn) \in TypeNamesOf(decls)

\* C13 (constructor precision): after categorization a no-receiver function
\* is in type X's constructor list if and only if its name starts with New
\* or Must and its first return type is X or *X for a known type X; every
\* other function is among the standalone functions and in no constructor
\* list.
C13_ConstructorPrecision ==
    pc = "categorized" =>
        \A i \in PlainFuncs(file) :
            LET fn == file[i] IN
            IF IsConstructorOfKnown(fn, file)
            THEN /\ \E g \in TypeGroupsOf(cat) :
                        g.TypeName = getFirstReturnTypeName(fn) /\ fn \in SeqToSet(g.Constructors)
                 /\ fn \notin StandaloneOf(cat)
            ELSE /\ fn \in StandaloneOf(cat)
                 /\ \A g \in TypeGroupsOf(cat) : fn \notin SeqToSet(g.Constructors)

(* --------------------------------- C14 ---------------------------------- *)

\* C14: a call given a Config that Config.Validate rejects (unknown or
\* duplicated section, unknown or duplicated layout element, unrecognized
\* mode) never categorizes or emits with it, and returns an error.
C14_InvalidConfigRejected ==
    Validate(cfg) # "nil" =>
        /\ pc \notin {"categorized", "reassembled"}
        /\ pc \in {"done", "compared"} => err # "nil"

(* --------------------------------- C15 ---------------------------------- *)

\* no name occurs twice in a list
NoRepeat(names) == \A i, j \in 1..Len(names) : i # j => names[i] # names[j]

\* only names of the closed vocabularies, none repeated, and a known mode
ValidConfig(c) ==
    /\ SeqToSet(c.Order) \subseteq ValidSections /\ NoRepeat(c.Order)
    /\ SeqToSet(c.TypeLayout) \subseteq ValidTypeLayoutElements /\ NoRepeat(c.TypeLayout)
    /\ SeqToSet(c.EnumLayout) \subseteq ValidEnumLayoutElements /\ NoRepeat(c.EnumLayout)
    /\ c.Mode \in {"strict", "warn", "append", "drop"}

\* C15: Config.Validate returns nil if and only if Sections.Order, TypeLayout
\* and EnumLayout hold only names of their vocabulary, none repeated, and Mode
\* is strict, warn, append or drop; DefaultConfig() validates.
C15_ValidateIff ==
    /\ pc = "loaded" => ((err = "nil") <=> ValidConfig(cfg))
    /\ (pc = "loaded" /\ cfg = DefaultConfig) => err = "nil"

\* a configuration with a repeated section has been validated and rejected
C15_Witness ==
    /\ pc = "loaded"
    /\ cfg.Order = <<"imports", "imports">>
    /\ cfg.Mode = "strict"
    /\ err = "duplicate section"

(* --------------------------------- C16 ---------------------------------- *)

\* number of declarations each section of Order renders
SectionLens(c, config) ==
    [k \in 1..Len(config.Order) |-> Len(SectionLayoutIds(c, config.Order[k], config))]

\* sum of the first n entries of a list of numbers
RECURSIVE SumTo(_, _)
SumTo(lens, n) == IF n <= 0 THEN 0 ELSE SumTo(lens, n - 1) + lens[n]

\* number of declarations the sections before the k-th of Order render
RenderedBefore(c, config, k) == SumTo(SectionLens(c, config), k - 1)

\* ids is one segment per section of Order from the k-th on, in that order,
\* the segment of a section holding exactly the declarations it renders
RECURSIVE SegmentsFrom(_, _, _, _)
SegmentsFrom(ids, c, config, k) ==
    IF k > Len(config.Order) THEN ids = <<>>
    ELSE LET want == SectionLayoutIds(c, config.Order[k], config) IN
         /\ Len(ids) >= Len(want)
         /\ SameBag(SubSeq(ids, 1, Len(want)), want)
         /\ SegmentsFrom(SubSeq(ids, Len(want) + 1, Len(ids)), c, config, k + 1)

\* C16: for a Config whose section names are known, the output is the
\* concatenation of one segment per section of Sections.Order, in that order:
\* the k-th segment holds exactly the declarations the k-th section renders,
\* so everything emitted for a section precedes everything emitted for the
\* sections after it.
C16_SectionOrder ==
    (pc = "reassembled" /\ SeqToSet(cfg.Order) \subseteq ValidSections) =>
        SegmentsFrom(IdsOf(file), cat, cfg, 1)

\* a file has been reassembled under the order that puts functions ahead of
\* constants, and a function precedes a constant block in the output
C16_Witness ==
    /\ pc = "reassembled"
    /\ cfg.Order = CustomOrder
    /\ \E i, j \in 1..Len(file) :
          i < j /\ file[i].kind = "func" /\ file[i].name # N_main /\ file[j].kind = "const"

(* --------------------------------- C17 ---------------------------------- *)

\* ids of one element of a type or enum group
ElementIds(g, elem) ==
    CASE elem = "typedef" -> IdsOf(OptDecl(g.TypeDecl))
      [] elem = "constructors" -> IF "Constructors" \in DOMAIN g THEN IdsOf(g.Constructors) ELSE <<>>
      [] elem = "iota" -> IF "ConstDecl" \in DOMAIN g THEN IdsOf(OptDecl(g.ConstDecl)) ELSE <<>>
      [] elem = "exported_methods" -> IdsOf(g.ExportedMethods)
      [] elem = "unexported_methods" -> IdsOf(g.UnexportedMethods)
      [] OTHER -> <<>>

\* the layout a section's groups are rendered with
LayoutOf(section, config) ==
    IF section \in {"exported_enums", "unexported_enums"} THEN config.EnumLayout ELSE config.TypeLayout

\* number of declarations a group renders under a layout
GroupLen(g, layout) == Len(Flatten([i \in 1..Len(layout) |-> ElementIds(g, layout[i])]))

\* number of declarations the groups before the m-th of a bucket render
RECURSIVE GroupsBefore(_, _, _)
GroupsBefore(groups, layout, m) ==
    IF m <= 1 THEN 0
    ELSE GroupsBefore(groups, layout, m - 1) + GroupLen(groups[m - 1], layout)

\* the part of the output that renders the m-th group of the k-th section
GroupSegment(ids, c, config, k, m) ==
    LET groups == c[SectionField(config.Order[k])]
        layout == LayoutOf(config.Order[k], config)
        start == RenderedBefore(c, config, k) + GroupsBefore(groups, layout, m)
    IN SubSeq(ids, start + 1, start + GroupLen(groups[m], layout))

\* positions of a layout's element names
ElementIndex(layout, elem) == CHOOSE i \in 1..Len(layout) : layout[i] = elem

\* the element of a group a declaration belongs to
ElementOf(g, layout, id) ==
    CHOOSE elem \in SeqToSet(layout) : id \in SeqToSet(ElementIds(g, elem))

\* C17: under a valid Config, the part of the output that renders one type
\* group (enum group) holds the group's elements named by TypeLayout
\* (EnumLayout), and a declaration of an element listed earlier in the layout
\* stands before every declaration of an element listed later.
C17_LayoutOrder ==
    (pc = "reassembled" /\ ValidConfig(cfg)) =>
        \A k \in 1..Len(cfg.Order) :
            cfg.Order[k] \in {"exported_enums", "unexported_enums", "exported_types", "unexported_types"} =>
                LET groups == cat[SectionField(cfg.Order[k])]
                    layout == LayoutOf(cfg.Order[k], cfg)
                IN \A m \in 1..Len(groups) :
                    LET seg == GroupSegment(IdsOf(file), cat, cfg, k, m) IN
                    /\ SameBag(seg, Flatten([i \in 1..Len(layout) |->
                                                  ElementIds(groups[m], layout[i])]))
                    /\ \A p, q \in 1..Len(seg) :
                          p < q => ElementIndex(layout, ElementOf(groups[m], layout, seg[p]))
                                     <= ElementIndex(layout, ElementOf(groups[m], layout, seg[q]))

\* a type group has been rendered under the layout that lists the methods
\* ahead of the type definition: a method stands before its type's definition
C17_Witness ==
    /\ pc = "reassembled"
    /\ cfg.TypeLayout = MethodsFirstTypeLayout
    /\ \E i, j \in 1..Len(file) :
          i < j /\ file[i].kind = "func" /\ file[i].recv # NoExpr /\ file[j].kind = "type"

(* --------------------------------- C18 ---------------------------------- *)

\* the no-receiver functions named init of a declaration list, in list order
InitFuncs(decls) ==
    SelectSeq(decls, LAMBDA d : d.kind = "func" /\ d.name = N_init /\ d.recv = NoExpr)

\* C18: under every Config that names the init section (once, among known
\* section names), the part of the output the init section renders is the
\* list of all init functions of the input in their input order, and these
\* are the output's only init functions.
C18_InitOrder ==
    (/\ pc = "reassembled"
     /\ SeqToSet(cfg.Order) \subseteq ValidSections
     /\ NoRepeat(cfg.Order)
     /\ "init" \in SeqToSet(cfg.Order)) =>
        LET k == CHOOSE n \in 1..Len(cfg.Order) : cfg.Order[n] = "init" IN
        /\ SubSeq(IdsOf(file), RenderedBefore(cat, cfg, k) + 1, RenderedBefore(cat, cfg, k + 1))
             = IdsOf(InitFuncs(Parse(src)))
        /\ InitFuncs(file) = InitFuncs(Parse(src))

\* a file with two init functions, the one the pool lists later first, has
\* been reassembled
C18_Witness ==
    /\ pc = "reassembled"
    /\ "init" \in SeqToSet(cfg.Order)
    /\ IdsOf(InitFuncs(Parse(src))) = <<20, 3>>
    /\ Len(file) >= 3

(* --------------------------------- C19 ---------------------------------- *)

\* a list is in ascending byte-wise order of its entries' names (type names,
\* for groups): no entry's name is less than the name of an entry before it
Ascends(list) ==
    \A i, j \in 1..Len(list) : i < j => ~StrLess(KeyOf(list[j]), KeyOf(list[i]))

\* C19: after categorization the const specs, the var specs, the enum groups,
\* the type groups, each group's constructor and method lists and the
\* standalone function lists are each in ascending case-sensitive
\* lexicographic order of name.
C19_Sorted ==
    pc = "categorized" =>
        /\ Ascends(cat.ExportedConsts) /\ Ascends(cat.UnexportedConsts)
        /\ Ascends(cat.ExportedVars) /\ Ascends(cat.UnexportedVars)
        /\ Ascends(cat.ExportedFuncs) /\ Ascends(cat.UnexportedFuncs)
        /\ Ascends(cat.ExportedEnums) /\ Ascends(cat.UnexportedEnums)
        /\ Ascends(cat.ExportedTypes) /\ Ascends(cat.UnexportedTypes)
        /\ \A g \in TypeGroupsOf(cat) :
              Ascends(g.Constructors) /\ Ascends(g.ExportedMethods) /\ Ascends(g.UnexportedMethods)
        /\ \A g \in SeqToSet(cat.ExportedEnums) \cup SeqToSet(cat.UnexportedEnums) :
              Ascends(g.ExportedMethods) /\ Ascends(g.UnexportedMethods)

\* a file that lists two constructors of one type in descending order of name
\* has been categorized
C19_Witness ==
    /\ pc = "categorized"
    /\ run = 1
    /\ \E g \in TypeGroupsOf(cat) : Len(g.Constructors) >= 2
    /\ \E i, j \in 1..Len(file) :
          /\ i < j
          /\ file[i].kind = "func" /\ file[j].kind = "func"
          /\ file[i].name = N_NewT /\ file[j].name = N_MustT

(* --------------------------------- C20 ---------------------------------- *)

\* C20: for every well-formed input, the text SourceWithConfig returns under
\* DefaultConfig() is the text Source returns for the same input, init
\* functions included.
C20_DefaultMatchesSource ==
    (pc = "compared" /\ cfg = DefaultConfig /\ WellFormed(src)) => result = original

(* --------------------------------- C21 ---------------------------------- *)

\* what the call returns when it runs alone on a unit under a Config
AloneOutput(text, config) == Fprint(DeclarationsWithOrder(CategorizedOf(text), config))

\* every goroutine that has returned holds the output of the call run alone
C21_AloneOutputs ==
    \A g \in Goroutines :
        pc[g] = "done" => (err[g] = "nil" /\ result[g] = AloneOutput(src[g], cfg))

\* C21: calls that run concurrently on their own source units and share one
\* Config do not interfere: no step of any of them writes to the Config or to
\* the package-level registry, and each returns exactly the output it returns
\* when run alone.
C21_NoInterference ==
    /\ []C21_AloneOutputs
    /\ [][cfg' = cfg /\ emitters' = emitters]_vars

\* one goroutine has returned while another, working on a different unit under
\* the same Config, is between categorization and emission
C21_Witness ==
    /\ \E g, h \in Goroutines :
          /\ pc[g] = "done" /\ pc[h] = "collected"
          /\ src[g] # src[h]
          /\ result[g] # NoText
          /\ cat[h].Uncategorized # <<>>

(* --------------------------------- C22 ---------------------------------- *)

\* the sections other than the catch-all itself
ContentSections == AllSections \ {"uncategorized"}

\* C22: unless Mode = drop, after the collection step every section that is
\* not named in Sections.Order (imports, main, init, consts, vars, enums,
\* types or funcs) holds no content, and everything it held before the step
\* is in Uncategorized.
C22_CollectFoldsAll ==
    (pc = "reassembled" /\ cfg.Mode # "drop" /\ WellFormed(src)) =>
        LET before == CategorizedOf(src) IN
        \A s \in ContentSections :
            s \notin SeqToSet(cfg.Order) =>
                /\ ~HasContent(cat, SectionField(s))
                /\ SeqToSet(SectionIds(before, s)) \subseteq SeqToSet(IdsOf(cat.Uncategorized))

(* --------------------------------- C23 ---------------------------------- *)

\* the TypeGroups of a file that Pass 3 pairs with an enum const block: the
\* groups named like an enum type, as they stand when Pass 2 is over
PairedGroups(decls) ==
    LET st == BeforePass4(decls) IN
    {st.typeGroups[n] : n \in (DOMAIN st.typeGroups) \cap st.enumTypes}

\* how often an id occurs in a list of ids
Count(ids, id) == Cardinality({i \in 1..Len(ids) : ids[i] = id})

\* C23: pairing an enum const block with its same-named type loses and
\* duplicates nothing: every declaration attached to that type's TypeGroup
\* (type definition, New/Must constructors, exported and unexported methods)
\* is reachable exactly once from the categorized declarations and, under the
\* default Config, appears exactly once in the output.
C23_PairingKeepsAll ==
    /\ (pc = "categorized" /\ WellFormed(src)) =>
          \A g \in PairedGroups(file) :
              \A id \in SeqToSet(IdsOf(FlattenTypeGroup(g))) : Count(ReachableIds(cat), id) = 1
    /\ (pc = "done" /\ cfg = DefaultConfig /\ WellFormed(src)) =>
          \A g \in PairedGroups(Parse(src)) :
              \A id \in SeqToSet(IdsOf(FlattenTypeGroup(g))) : Count(IdsOf(result), id) = 1

(* --------------------------------- C24 ---------------------------------- *)

\* the enum groups of a CategorizedDecls
EnumGroupsOf(c) == SeqToSet(c.ExportedEnums) \cup SeqToSet(c.UnexportedEnums)

\* C24: after categorization no type name is the name of an EnumGroup (in
\* ExportedEnums or UnexportedEnums) and also of a TypeGroup in ExportedTypes
\* or UnexportedTypes.
C24_NeverInBoth ==
    pc = "categorized" =>
        {g.TypeName : g \in EnumGroupsOf(cat)} \cap {g.TypeName : g \in TypeGroupsOf(cat)} = {}

(* --------------------------------- C25 ---------------------------------- *)

\* the methods of a declaration list
MethodsOf(decls) == {decls[i] : i \in {k \in 1..Len(decls) : decls[k].kind = "func" /\ decls[k].recv # NoExpr}}

\* names of the types that have methods in a unit and no type definition there
MethodOnlyNames(decls) ==
    {ExtractReceiverTypeName(m.recv) : m \in MethodsOf(decls)} \ TypeNamesOf(decls)

\* the methods of a unit whose receiver names the type
MethodsOn(decls, n) == {m \in MethodsOf(decls) : ExtractReceiverTypeName(m.recv) = n}

\* the section that renders the type groups of a type name
TypesSection(n) == IF IsExported(n) THEN "exported_types" ELSE "unexported_types"

\* a Config under which the methods of a type group of that section are
\* rendered: the section is named and TypeLayout names both method elements,
\* or the section is left out, folded (Mode is not drop) and the uncategorized
\* section is named
RendersMethods(config, section) ==
    /\ ValidConfig(config)
    /\ \/ /\ section \in SeqToSet(config.Order)
          /\ {"exported_methods", "unexported_methods"} \subseteq SeqToSet(config.TypeLayout)
       \/ /\ section \notin SeqToSet(config.Order)
          /\ config.Mode # "drop"
          /\ "uncategorized" \in SeqToSet(config.Order)

StripPointer(expr) == IF expr.form = "star" THEN expr.x ELSE expr

\* the receiver type with its generic type parameters taken off
StripTypeParams(expr) == IF expr.form = "index" THEN expr.x ELSE expr

\* the base type of a receiver: the name left when one level of pointer
\* indirection and the generic type parameters are stripped
BaseType(recv) ==
    LET base == StripTypeParams(StripPointer(recv)) IN
    IF base.form = "ident" THEN base.name ELSE NoName

\* the type and enum groups of a CategorizedDecls
GroupsOf(c) == TypeGroupsOf(c) \cup EnumGroupsOf(c)

\* C26: after categorization every method of the unit is in the method list
\* of a group named like its receiver's base type (the receiver type with one
\* level of pointer indirection and any generic type parameters stripped), in
\* the exported list if the method's name is exported and in the unexported
\* list otherwise, and in no list of a group of another name and not in the
\* other list.
C26_ReceiverBaseType ==
    (pc = "categorized" /\ WellFormed(src)) =>
        \A m \in MethodsOf(file) :
            LET n == BaseType(m.recv) IN
            /\ \E g \in GroupsOf(cat) :
                  /\ g.TypeName = n
                  /\ IF IsExported(m.name)
                     THEN m \in SeqToSet(g.ExportedMethods)
                     ELSE m \in SeqToSet(g.UnexportedMethods)
            /\ \A g \in GroupsOf(cat) :
                  /\ m \in SeqToSet(g.ExportedMethods) => (g.TypeName = n /\ IsExported(m.name))
                  /\ m \in SeqToSet(g.UnexportedMethods) => (g.TypeName = n /\ ~IsExported(m.name))

\* a unit with a method on a pointer to a generic type and an unexported
\* method on a value receiver has been categorized
C26_Witness ==
    /\ pc = "categorized"
    /\ \E m \in MethodsOf(file) :
          /\ m.recv.form = "star" /\ m.recv.x.form = "index"
          /\ \E g \in GroupsOf(cat) : g.TypeName = N_U /\ m \in SeqToSet(g.ExportedMethods)
    /\ \E m \in MethodsOf(file) :
          /\ m.recv.form = "ident" /\ ~IsExported(m.name)
          /\ \E g \in GroupsOf(cat) : g.TypeName = N_t /\ m \in SeqToSet(g.UnexportedMethods)

(* --------------------------------- C27 ---------------------------------- *)

\* position of the entry with an id in a list of specs or functions
PositionOf(list, id) == CHOOSE i \in 1..Len(list) : list[i].id = id

\* entries of equal sort key stand in the sorted list in the relative order
\* they had in the list before sorting
KeepsEqualKeysInOrder(before, after) ==
    \A i, j \in 1..Len(before) :
        (i < j /\ KeyOf(before[i]) = KeyOf(before[j])) =>
            PositionOf(after, before[i].id) < PositionOf(after, before[j].id)

\* the buckets of specs and of standalone functions
ListBuckets ==
    {"ExportedConsts", "UnexportedConsts", "ExportedVars", "UnexportedVars",
     "ExportedFuncs", "UnexportedFuncs"}

\* C27: sorting is stable: entries of a sorted list whose sort keys are equal
\* keep the relative order they had before sorting, and sorting an already
\* sorted CategorizedDecls changes nothing.
C27_StableSort ==
    /\ pc \in {"sorted", "resorted"} =>
          \A b \in ListBuckets : KeepsEqualKeysInOrder(original[b], cat[b])
    /\ pc = "resorted" => cat = original

(* --------------------------------- C28 ---------------------------------- *)

\* the sections that render groups
GroupSections == {"exported_enums", "unexported_enums", "exported_types", "unexported_types"}

\* the recognised elements of the layout a section's groups are rendered with
ElementsOf(section) ==
    IF section \in {"exported_enums", "unexported_enums"}
    THEN ValidEnumLayoutElements ELSE ValidTypeLayoutElements

\* ids of the declarations of a group's elements that a layout leaves out
OmittedIds(g, section, config) ==
    UNION {SeqToSet(ElementIds(g, elem)) :
              elem \in ElementsOf(section) \ SeqToSet(LayoutOf(section, config))}

\* C28: under a valid Config, in every mode, the declarations of an element
\* that TypeLayout (EnumLayout) leaves out are not rendered for any emitted
\* type group (enum group) and are not moved into Uncategorized: they are
\* not in Uncategorized and nowhere in the output (so not in the part of it
\* that renders the group either).
C28_OmittedNotRendered ==
    (pc = "reassembled" /\ ValidConfig(cfg) /\ WellFormed(src)) =>
        LET outIds == SeqToSet(IdsOf(file))
            uncatIds == SeqToSet(IdsOf(cat.Uncategorized))
        IN \A k \in 1..Len(cfg.Order) :
              cfg.Order[k] \in GroupSections =>
                  LET groups == cat[SectionField(cfg.Order[k])] IN
                  \A m \in 1..Len(groups) :
                      LET omitted == OmittedIds(groups[m], cfg.Order[k], cfg) IN
                      /\ omitted \cap uncatIds = {}
                      /\ omitted \cap outIds = {}

\* an enum group with a type definition and a method has been emitted in a
\* mode other than drop under the layout that leaves out the value block: the
\* output holds the type definition and the method and no const block
C28_Witness ==
    /\ pc = "reassembled"
    /\ cfg.Mode = "append"
    /\ cfg.EnumLayout = NoIotaEnumLayout
    /\ \E g \in EnumGroupsOf(cat) :
          /\ g.TypeDecl # Nil /\ g.TypeDecl \in SeqToSet(file)
          /\ g.ExportedMethods # <<>> /\ g.ExportedMethods[1] \in SeqToSet(file)
    /\ \A i \in 1..Len(file) : file[i].kind # "const"

(* --------------------------------- C29 ---------------------------------- *)

\* position of an id in a list of ids
IndexOf(ids, id) == CHOOSE i \in 1..Len(ids) : ids[i] = id

\* the declarations with these ids stand in the second list in the relative
\* order they have in the first
SameRelativeOrder(ids, first, second) ==
    \A x, y \in ids :
        IndexOf(first, x) < IndexOf(first, y) => IndexOf(second, x) < IndexOf(second, y)

\* C29: when the uncategorized section is named, the declarations that ended
\* up in Uncategorized, content folded in from unconfigured sections included,
\* all appear in the output, in the relative order they had in the input.
C29_UncategorizedInInputOrder ==
    (/\ pc = "reassembled"
     /\ ValidConfig(cfg)
     /\ "uncategorized" \in SeqToSet(cfg.Order)
     /\ WellFormed(src)) =>
        LET ids == SeqToSet(IdsOf(cat.Uncategorized)) IN
        /\ ids \subseteq SeqToSet(IdsOf(file))
        /\ SameRelativeOrder(ids, IdsOf(Parse(src)), IdsOf(file))

(* --------------------------------- C30 ---------------------------------- *)

\* the import declarations of a declaration list, in list order
ImportsOf(decls) == SelectSeq(decls, LAMBDA d : d.kind = "import")

\* the units that hold the same declarations as a unit, in any order that
\* keeps the relative order of its imports and of its init functions
Reorderings(decls) ==
    {q \in {[i \in 1..Len(decls) |-> decls[o[i]]] : o \in SeqsOver(1..Len(decls))} :
        ImportsOf(q) = ImportsOf(decls) /\ InitFuncs(q) = InitFuncs(decls)}

\* C30: the result does not depend on the order of the input's declarations:
\* every well-formed unit that holds the same declarations as the input and
\* agrees with it on the relative order of the imports and of the init
\* functions yields, under the same Config, the output the call returned.
C30_InputOrderIndependent ==
    (pc = "done" /\ run = 1 /\ err = "nil" /\ WellFormed(src)) =>
        \A q \in Reorderings(Parse(src)) : AloneOutput(q, cfg) = result

====
